---- MODULE Spec2Model ----
(***************************************************************************)
(* Identity and session subsystem of gamehub: sign-in orchestration        *)
(* (players_service.rs), the transactional player store (players_db.rs)    *)
(* and the JWT session-token service (jwt_service.rs).                     *)
(*                                                                         *)
(* Every sign_in call is a process; its await points are the places where  *)
(* other calls interleave and where the call's future can be dropped.      *)
(***************************************************************************)
EXTENDS Integers, Sequences, FiniteSets, TLC

\* ------------------------------------------------------------------ bounds
\* Number of sign_in calls made during one behaviour.
MaxCalls == 2
\* Last clock value (seconds) reached while sign_in calls run.
MaxNow == 1
\* JwtConfig.ttl in seconds (configuration, fixed at construction).
TokenTtl == 2
\* The resolution of the clock and of durations where parts of a second
\* matter: ticks per second.
TicksPerSecond == 2
\* Last clock value (ticks) at which a token service exercised on its own
\* issues a token, and the largest ttl (ticks) it is constructed with.
MaxClock == 5
MaxTtlTicks == 3
\* Longest value of a secret field of a configuration, in characters.
MaxSecretLen == 2
\* Longest name string handed to a validation, in runs of one character.
MaxRuns == 3

\* --------------------------------------------------------------- constants
\* jsonwebtoken::Validation::default().leeway, in seconds.
Leeway == 60

Calls == 1..MaxCalls
\* The external user ids (claims.sub) the identity verifier can assert.
UserIds == {"ext-42", "ext-43"}
\* PlayerId::random() is Uuid::now_v7(): a value never generated before.
PlayerIds == 1..MaxCalls
\* PlayerScreenName::random(): a generated pet name.
ScreenNames == {"calm-red-fox"}
\* JwtConfig.secret.
Secret == "jwt_secret"
\* The clock values the token service is exercised over: far enough to pass
\* exp + leeway of a token issued at the start.
JwtHorizon == TokenTtl + Leeway + 2
\* The length of the first segment of a token: the base64 of the 27 bytes of
\* {"typ":"JWT","alg":"HS256"}.
HeaderSegmentLen == 36

None == [kind |-> "None"]

VARIABLES
    now,            \* Utc::now() in seconds
    players,        \* committed rows of table player
    links,          \* committed rows of table third_party_sign_in_method
    nextId,         \* the next fresh PlayerId
    pc,             \* per sign_in call: the await point it is suspended at
    request,        \* per call: the SignInRequest
    sign_in_method, \* per call: local sign_in_method
    player,         \* per call: local player (found or synthesized)
    tx,             \* per call: the open transaction of create_player_with_sign_in_method
    createResult,   \* per call: what create_player_with_sign_in_method returned,
                    \*           with the player it persisted when it is Ok
    result,         \* per call: what sign_in returned
    invoked,        \* per call: how often each collaborator was called
    jwtIssued,      \* token service exercised alone: the token last issued
    jwtChecked,     \* token service exercised alone: the last verification
    info,           \* the GET /players/info request in flight or last answered
    unit            \* a function or a service exercised on its own: its
                    \* inputs and what it last returned

vars == <<now, players, links, nextId, pc, request, sign_in_method, player, tx,
          createResult, result, invoked, jwtIssued, jwtChecked, info, unit>>

signInVars == <<players, links, nextId, pc, request, sign_in_method, player, tx,
                createResult, result, invoked>>
jwtVars == <<jwtIssued, jwtChecked>>

\* ------------------------------------------------------------ error values
\* PlayersError: kind is the enum variant; context and cause are the anyhow
\* context string and the underlying error it wraps.
PlayersErr(kind, context, cause) ==
    [kind |-> kind, context |-> context, cause |-> cause]

\* `?` on an anyhow::Error: From<anyhow::Error> gives PlayersError::Internal.
InternalErr(context, cause) == PlayersErr("Internal", context, cause)

\* A conversion of the verifier's error that hides it in an internal error.
IdTokenErrAsInternal(cause) == PlayersErr("Internal", "verify id token", cause)

\* `?` on an IdTokenVerifierError: From gives PlayersError::IdToken.
IdTokenErr(cause) == PlayersErr("IdToken", "", cause)

PlayerNotFound == PlayersErr("PlayerNotFound", "", "")

IsErr(r) == r.kind \in {"PlayerNotFound", "IdToken", "AuthToken", "AuthTokenMissing", "Internal"}

\* Display of PlayersError (#[error("...")]): the text and the wrapped error.
DevMessage(e) ==
    CASE e.kind = "PlayerNotFound"   -> <<"player not found">>
      [] e.kind = "IdToken"          ->
            <<"error when verifying third party id token: ", e.cause>>
      [] e.kind = "AuthToken"        ->
            <<"error when verifying auth token: ", e.cause>> \o e.detail
      [] e.kind = "AuthTokenMissing" -> <<"auth token is missing">>
      [] e.kind = "Internal"         -> <<"internal error: ", e.context, e.cause>>

\* An into_response that reports a player not found as a server error.
IntoResponseNotFoundAsInternal(e) ==
    LET status_id ==
            CASE e.kind = "IdToken"          -> <<400, 0>>
              [] e.kind = "PlayerNotFound"   -> <<500, 4>>
              [] e.kind = "AuthToken"        -> <<401, 2>>
              [] e.kind = "AuthTokenMissing" -> <<401, 3>>
              [] e.kind = "Internal"         -> <<500, 4>>
    IN  [status |-> status_id[1],
         body |-> [module |-> "players", id |-> status_id[2],
                   dev_message |-> DevMessage(e)]]

\* PlayersError::into_response: (status, Json(ApiError { module, id,
\* dev_message })).
IntoResponse(e) ==
    LET status_id ==
            CASE e.kind = "IdToken"          -> <<400, 0>>
              [] e.kind = "PlayerNotFound"   -> <<401, 1>>
              [] e.kind = "AuthToken"        -> <<401, 2>>
              [] e.kind = "AuthTokenMissing" -> <<401, 3>>
              [] e.kind = "Internal"         -> <<500, 4>>
    IN  [status |-> status_id[1],
         body |-> [module |-> "players", id |-> status_id[2],
                   dev_message |-> DevMessage(e)]]

\* ------------------------------------------------------------ session token
\* jsonwebtoken::Header::default(): alg HS256.
Header == [alg |-> "HS256", typ |-> "JWT"]

\* The payload segment: the serde serialization of AuthTokenClaims, the
\* fields in declaration order.
SerializeClaims(claims) == [json |-> <<claims.exp, claims.iat, claims.sub>>]

DeserializeClaims(payload) ==
    [exp |-> payload.json[1], iat |-> payload.json[2], sub |-> payload.json[3]]

\* The signature segment: the HMAC of the signing input (header and payload)
\* under a secret.
Sign(key, header, payload) == [mac |-> <<"hmac", key, header.alg, payload.json>>]

\* jsonwebtoken::encode: header segment, payload segment, signature segment.
Encode(header, claims, key) ==
    <<header, SerializeClaims(claims), Sign(key, header, SerializeClaims(claims))>>

\* The segments of a presented token parse as a header and as claims.
ParsesAsHeader(segment) == DOMAIN segment = {"alg", "typ"}

ParsesAsClaims(segment) == DOMAIN segment = {"json"}

\* jsonwebtoken::errors::Error: its kind and what its Display adds to the kind.
DecodeErr(error) == [kind |-> "Err", error |-> error, detail |-> <<>>]

\* A first segment that is not the header of a token: `rest` are the bytes in
\* front of it, `cut` the number of bytes missing from its start, `segment`
\* the header segment it was made from (None: of none).
GarbledSegment(rest, cut, segment) ==
    [garbled |-> [rest |-> rest, cut |-> cut, segment |-> segment]]

\* Bytes outside the base64url alphabet.
NonBase64Symbols == {"!", "#", " "}

\* The error of decoding the header from a garbled first segment: a byte
\* outside the alphabet is ErrorKind::Base64(DecodeError::InvalidByte(..)),
\* displayed with the byte; otherwise the decoded bytes are not the JSON of a
\* header.
HeaderSegmentError(segment) ==
    LET rest == segment.garbled.rest
        bad == {i \in DOMAIN rest : rest[i] \in NonBase64Symbols}
    IN  IF bad # {}
        THEN [kind |-> "Err", error |-> "Base64",
              detail |-> <<"Invalid byte ",
                           rest[CHOOSE i \in bad : \A j \in bad : i <= j]>>]
        ELSE DecodeErr("Json")

\* A decode whose validation does not check exp (validate_exp = false).
DecodeNoExpiry(token, key, at) ==
    IF Len(token) # 3 THEN DecodeErr("InvalidToken")
    ELSE IF ~ParsesAsHeader(token[1]) THEN HeaderSegmentError(token[1])
    ELSE IF token[1].alg # "HS256" THEN DecodeErr("InvalidAlgorithm")
    ELSE IF ~ParsesAsClaims(token[2]) \/ token[3] # Sign(key, token[1], token[2])
        THEN DecodeErr("InvalidSignature")
    ELSE [kind |-> "Ok", claims |-> DeserializeClaims(token[2])]

\* A decode that validates exp before it checks the signature.
DecodeExpiryFirst(token, key, at) ==
    IF Len(token) # 3 THEN DecodeErr("InvalidToken")
    ELSE IF ~ParsesAsHeader(token[1]) THEN HeaderSegmentError(token[1])
    ELSE IF token[1].alg # "HS256" THEN DecodeErr("InvalidAlgorithm")
    ELSE IF ParsesAsClaims(token[2]) /\ DeserializeClaims(token[2]).exp < at - Leeway
        THEN DecodeErr("ExpiredSignature")
    ELSE IF ~ParsesAsClaims(token[2]) \/ token[3] # Sign(key, token[1], token[2])
        THEN DecodeErr("InvalidSignature")
    ELSE [kind |-> "Ok", claims |-> DeserializeClaims(token[2])]

\* jsonwebtoken::decode under Validation::default(): the token is split into
\* three segments and the header parsed, the signature is checked over the
\* first two segments, then the claims are parsed and exp is validated with
\* the leeway.
Decode(token, key, at) ==
    IF Len(token) # 3 THEN DecodeErr("InvalidToken")
    ELSE IF ~ParsesAsHeader(token[1]) THEN HeaderSegmentError(token[1])
    ELSE IF token[1].alg # "HS256" THEN DecodeErr("InvalidAlgorithm")
    ELSE IF ~ParsesAsClaims(token[2]) \/ token[3] # Sign(key, token[1], token[2])
        THEN DecodeErr("InvalidSignature")
    ELSE IF DeserializeClaims(token[2]).exp < at - Leeway
        THEN DecodeErr("ExpiredSignature")
    ELSE [kind |-> "Ok", claims |-> DeserializeClaims(token[2])]

\* DateTime::timestamp() and Duration::num_seconds(): the whole seconds of a
\* time or a duration given in ticks.
Timestamp(t) == t \div TicksPerSecond

NumSeconds(d) == d \div TicksPerSecond

\* The claims of create_token: exp is (now + self.token_ttl).timestamp() and
\* iat is now.timestamp(), for a clock value and a ttl in ticks.
CreateClaimsAt(player_id, t, ttl) ==
    [exp |-> Timestamp(t + ttl), iat |-> Timestamp(t), sub |-> player_id]

\* JwtServiceDefault::create_token at clock value `at`, a whole number of
\* seconds, with the ttl of TokenTtl seconds.
CreateClaims(player_id, at) ==
    CreateClaimsAt(player_id, at * TicksPerSecond, TokenTtl * TicksPerSecond)

\* A token signed with a secret other than the one verify_token checks with.
CreateTokenOtherSecret(player_id, at) ==
    [kind |-> "Ok", token |-> Encode(Header, CreateClaims(player_id, at), "wrong-secret")]

CreateToken(player_id, at) ==
    [kind |-> "Ok", token |-> Encode(Header, CreateClaims(player_id, at), Secret)]

\* A verify_token of a service that keeps a revocation list: a token is
\* refused once a later sign-in has been served.
VerifyTokenRevokedByLaterSignIn(token, at) ==
    LET d == Decode(token, Secret, at)
    IN  IF d.kind = "Ok" /\ unit.later = {} THEN d
        ELSE [kind |-> "AuthToken", context |-> "",
              cause |-> IF d.kind = "Ok" THEN "InvalidToken" ELSE d.error,
              detail |-> <<>>]

\* JwtServiceDefault::verify_token at clock value `at`.
VerifyToken(token, at) ==
    LET d == Decode(token, Secret, at)
    IN  IF d.kind = "Ok" THEN d
        ELSE [kind |-> "AuthToken", context |-> "", cause |-> d.error,
              detail |-> d.detail]

\* The subject a token carries.
TokenSub(token) == DeserializeClaims(token[2]).sub

\* -------------------------------------------------------------------- store
NoTx == [open |-> FALSE, players |-> {}, links |-> {}]

\* The key of a sign-in method row.
LinkKey(l) == <<l.provider, l.user_id>>

\* A lookup that binds the provider to both parameters of the where clause
\* (t.user_id = $1): it matches no row.
FindPlayerWithSignInMethodWrongBind(sim) ==
    {p \in players : \E l \in links :
        /\ l.player_id = p.id
        /\ l.provider = sim.provider
        /\ l.user_id = sim.provider}

\* A lookup whose where clause names the provider only: it matches the
\* players of every user of the provider.
FindPlayerWithSignInMethodAnyUser(sim) ==
    {p \in players : \E l \in links :
        /\ l.player_id = p.id
        /\ l.provider = sim.provider}

\* select ... from player p join third_party_sign_in_method t on p.id = t.player_id
\* where t.provider = $1 and t.user_id = $2   (fetch_optional)
FindPlayerWithSignInMethod(sim) ==
    {p \in players : \E l \in links :
        /\ l.player_id = p.id
        /\ l.provider = sim.provider
        /\ l.user_id = sim.user_id}

\* select ... from player where id = $1   (fetch_optional)
FindPlayerById(player_id) == {p \in players : p.id = player_id}

\* The uniqueness constraint of third_party_sign_in_method on (provider, user_id):
\* a committed row with the key of the inserted row makes the insert fail.
SignInMethodKeyExists(row) ==
    \E l \in links : LinkKey(l) = LinkKey(row)

\* An insert of a key that another open transaction has inserted waits for
\* that transaction to end.
SignInMethodKeyPending(c, row) ==
    \E d \in Calls \ {c} : \E l \in tx[d].links : LinkKey(l) = LinkKey(row)

\* The player insert executed on the pool instead of the transaction: the row
\* is committed at once.
ExecInsertPlayerOnPool(c) ==
    [players |-> players \cup {player[c]}, tx |-> tx[c]]

\* insert into player ... executed on the transaction: pending until commit.
ExecInsertPlayer(c) ==
    [players |-> players,
     tx |-> [tx[c] EXCEPT !.players = @ \cup {player[c]}]]

\* The row of insert into third_party_sign_in_method (provider, user_id, player_id)
\* values ($1, $2, $3).
SignInMethodRow(c) ==
    [provider |-> sign_in_method[c].provider,
     user_id |-> sign_in_method[c].user_id,
     player_id |-> player[c].id]

\* The sign-in-method insert executed on the pool instead of the transaction:
\* the row is committed at once.
ExecInsertSignInMethodOnPool(c) ==
    [links |-> links \cup {SignInMethodRow(c)}, tx |-> tx[c]]

\* insert into third_party_sign_in_method ... executed on the transaction.
ExecInsertSignInMethod(c) ==
    [links |-> links,
     tx |-> [tx[c] EXCEPT !.links = @ \cup {SignInMethodRow(c)}]]

\* The transaction ends without tx.commit(): its rows are rolled back.
CommitTxForgotten(c) == [players |-> players, links |-> links]

\* A commit that replaces the tables by the rows of the transaction.
CommitTxReplacesRows(c) == [players |-> tx[c].players, links |-> tx[c].links]

\* tx.commit(): the pending rows become visible together.
CommitTx(c) ==
    [players |-> players \cup tx[c].players, links |-> links \cup tx[c].links]

\* ------------------------------------------------------------------ sign_in
NoCalls == [verify |-> 0, find |-> 0, create |-> 0, token |-> 0]

\* A Google ID token issued for external user u, and the claims the verifier
\* recovers from it when it accepts it.
IdToken(u) == [iss |-> "google", sub |-> u]

VerifiedClaims(id_token) == [sub |-> id_token.sub]

\* The outcomes of IdTokenVerifier::verify: claims, a validation error (the
\* token is invalid or untrusted), or a failure to fetch the keys.
VerifierOutcomes == {"Ok", "Validation", "JwksFetch"}

\* A sign-in method built with a user id that is not the sub of the claims.
ThirdPartySignInMethodFixedUser(user_id) ==
    [kind |-> "ThirdParty", provider |-> "Google", user_id |-> "ext-42"]

\* SignInMethod::ThirdParty(ThirdPartySignInMethod { provider: Google, user_id })
ThirdPartySignInMethod(user_id) ==
    [kind |-> "ThirdParty", provider |-> "Google", user_id |-> user_id]

\* A player synthesized with a fixed id instead of a fresh one.
NewPlayerFixedId(name) == [id |-> 1, screen_name |-> name, joined_at |-> now]

\* Player { id: PlayerId::random(), screen_name: PlayerScreenName::random(),
\*          joined_at: PlayerJoinedAt::now() }
NewPlayer(name) == [id |-> nextId, screen_name |-> name, joined_at |-> now]

\* A token issued for another id than the one of the player at hand.
IssueTokenForOtherId(p, jwtOk) ==
    IF jwtOk THEN CreateToken(p.id + 1, now)
    ELSE InternalErr("create auth token", "encode")

\* self.jwt_service.create_token(player.id)? followed by Ok(auth_token).
\* The JwtService collaborator may fail; the default one is CreateToken.
IssueToken(p, jwtOk) ==
    IF jwtOk THEN CreateToken(p.id, now)
    ELSE InternalErr("create auth token", "encode")

\* sign_in returns r: its locals are gone, the caller holds the result.
Finish(c, r) ==
    /\ pc' = [pc EXCEPT ![c] = "done"]
    /\ result' = [result EXCEPT ![c] = r]
    /\ sign_in_method' = [sign_in_method EXCEPT ![c] = None]
    /\ player' = [player EXCEPT ![c] = None]
    /\ tx' = [tx EXCEPT ![c] = NoTx]

\* A sign_in that goes on to issue the token when the creation failed.
CreateFailsIgnored(c, e) ==
    /\ createResult' = [createResult EXCEPT ![c] = e]
    /\ Finish(c, CreateToken(player[c].id, now))

\* A sign_in that looks the player up again when the creation failed.
CreateFailsRetriesLookup(c, e) ==
    /\ createResult' = [createResult EXCEPT ![c] = e]
    /\ pc' = [pc EXCEPT ![c] = "find"]
    /\ tx' = [tx EXCEPT ![c] = NoTx]
    /\ UNCHANGED <<result, sign_in_method, player>>

\* create_player_with_sign_in_method returns Err(e) and sign_in's `?` returns
\* it to the caller; the transaction, if open, is dropped and rolls back.
CreateFails(c, e) ==
    /\ createResult' = [createResult EXCEPT ![c] = e]
    /\ Finish(c, e)

\* sign_in is called: the identity verifier is awaited.
SignInStart(c, u) ==
    /\ pc[c] = "idle"
    /\ request' = [request EXCEPT ![c] = [provider |-> "Google", id_token |-> IdToken(u)]]
    /\ invoked' = [invoked EXCEPT ![c].verify = @ + 1]
    /\ pc' = [pc EXCEPT ![c] = "verify"]
    /\ UNCHANGED <<now, players, links, nextId, sign_in_method, player, tx,
                   createResult, result, jwtVars, info, unit>>

\* google_id_token_verifier.verify(id_token).await? ; then the lookup is awaited.
\* outcome is what the verifier answers: the claims, or one of its errors.
VerifyReturns(c, outcome) ==
    /\ pc[c] = "verify"
    /\ IF outcome = "Ok"
       THEN /\ sign_in_method' = [sign_in_method EXCEPT ![c] =
                    ThirdPartySignInMethod(VerifiedClaims(request[c].id_token).sub)]
            /\ invoked' = [invoked EXCEPT ![c].find = @ + 1]
            /\ pc' = [pc EXCEPT ![c] = "find"]
            /\ UNCHANGED <<result, player, tx>>
       ELSE /\ Finish(c, IdTokenErr(outcome))
            /\ UNCHANGED invoked
    /\ UNCHANGED <<now, players, links, nextId, request, createResult, jwtVars, info, unit>>

\* find_player_with_sign_in_method(..).await returns. Ok(player): the token is
\* created and sign_in returns. Err(PlayerNotFound): a player is synthesized and
\* create_player_with_sign_in_method is called, which awaits begin(). Any other
\* error is returned.
FindReturns(c, dbOk, name, jwtOk) ==
    /\ pc[c] = "find"
    /\ LET found == FindPlayerWithSignInMethod(sign_in_method[c])
       IN  IF ~dbOk
           THEN /\ Finish(c, InternalErr("find player with sign in method", "io"))
                /\ UNCHANGED <<nextId, invoked>>
           ELSE IF found # {}
           THEN /\ \E p \in found : Finish(c, IssueToken(p, jwtOk))
                /\ invoked' = [invoked EXCEPT ![c].token = @ + 1]
                /\ UNCHANGED nextId
           ELSE /\ player' = [player EXCEPT ![c] = NewPlayer(name)]
                /\ nextId' = nextId + 1
                /\ invoked' = [invoked EXCEPT ![c].create = @ + 1]
                /\ pc' = [pc EXCEPT ![c] = "begin"]
                /\ UNCHANGED <<result, sign_in_method, tx>>
    /\ UNCHANGED <<now, players, links, request, createResult, jwtVars, info, unit>>

\* self.begin().await.context("begin transaction")?
BeginReturns(c, dbOk) ==
    /\ pc[c] = "begin"
    /\ IF dbOk
       THEN /\ tx' = [tx EXCEPT ![c] = [NoTx EXCEPT !.open = TRUE]]
            /\ pc' = [pc EXCEPT ![c] = "insert_player"]
            /\ UNCHANGED <<createResult, result, sign_in_method, player>>
       ELSE CreateFails(c, InternalErr("begin transaction", "io"))
    /\ UNCHANGED <<now, players, links, nextId, request, invoked, jwtVars, info, unit>>

\* insert into player ... .execute(tx).await.context("create player")?
InsertPlayerReturns(c, dbOk) ==
    /\ pc[c] = "insert_player"
    /\ IF dbOk
       THEN /\ tx' = [tx EXCEPT ![c] = ExecInsertPlayer(c).tx]
            /\ players' = ExecInsertPlayer(c).players
            /\ pc' = [pc EXCEPT ![c] = "insert_link"]
            /\ UNCHANGED <<createResult, result, sign_in_method, player>>
       ELSE /\ CreateFails(c, InternalErr("create player", "io"))
            /\ UNCHANGED players
    /\ UNCHANGED <<now, links, nextId, request, invoked, jwtVars, info, unit>>

\* insert into third_party_sign_in_method ... .await.context("create sign in method")?
\* The statement waits while another open transaction holds the same key, and
\* fails when a committed row has it.
InsertSignInMethodReturns(c, dbOk) ==
    /\ pc[c] = "insert_link"
    /\ IF ~dbOk
       THEN /\ CreateFails(c, InternalErr("create sign in method", "io"))
            /\ UNCHANGED links
       ELSE /\ ~SignInMethodKeyPending(c, SignInMethodRow(c))
            /\ IF SignInMethodKeyExists(SignInMethodRow(c))
               THEN /\ CreateFails(c, InternalErr("create sign in method", "unique_violation"))
                    /\ UNCHANGED links
               ELSE /\ tx' = [tx EXCEPT ![c] = ExecInsertSignInMethod(c).tx]
                    /\ links' = ExecInsertSignInMethod(c).links
                    /\ pc' = [pc EXCEPT ![c] = "commit"]
                    /\ UNCHANGED <<createResult, result, sign_in_method, player>>
    /\ UNCHANGED <<now, players, nextId, request, invoked, jwtVars, info, unit>>

\* A sign_in that creates the token inside the transaction and commits only
\* when the token was created: a failed issuance undoes the creation.
CommitReturnsUndoneOnTokenFailure(c, dbOk, jwtOk) ==
    /\ pc[c] = "commit"
    /\ IF dbOk
       THEN /\ players' = IF jwtOk THEN CommitTx(c).players ELSE players
            /\ links' = IF jwtOk THEN CommitTx(c).links ELSE links
            /\ createResult' = [createResult EXCEPT ![c] =
                                    [kind |-> "Ok", created |-> player[c]]]
            /\ invoked' = [invoked EXCEPT ![c].token = @ + 1]
            /\ Finish(c, IssueToken(player[c], jwtOk))
       ELSE /\ CreateFails(c, InternalErr("commit transaction", "io"))
            /\ UNCHANGED <<players, links, invoked>>
    /\ UNCHANGED <<now, nextId, request, jwtVars, info, unit>>

\* tx.commit().await.context("commit transaction")? ; Ok(()) ; then
\* create_token and the return of sign_in, which have no await between them.
CommitReturns(c, dbOk, jwtOk) ==
    /\ pc[c] = "commit"
    /\ IF dbOk
       THEN /\ players' = CommitTx(c).players
            /\ links' = CommitTx(c).links
            /\ createResult' = [createResult EXCEPT ![c] =
                                    [kind |-> "Ok", created |-> player[c]]]
            /\ invoked' = [invoked EXCEPT ![c].token = @ + 1]
            /\ Finish(c, IssueToken(player[c], jwtOk))
       ELSE /\ CreateFails(c, InternalErr("commit transaction", "io"))
            /\ UNCHANGED <<players, links, invoked>>
    /\ UNCHANGED <<now, nextId, request, jwtVars, info, unit>>

\* The future of a sign_in call is dropped at an await point (the client went
\* away): its locals are dropped, an open transaction with them, which rolls
\* back.
Drop(c) ==
    /\ pc[c] \in {"verify", "find", "begin", "insert_player", "insert_link", "commit"}
    /\ pc' = [pc EXCEPT ![c] = "dropped"]
    /\ tx' = [tx EXCEPT ![c] = NoTx]
    /\ sign_in_method' = [sign_in_method EXCEPT ![c] = None]
    /\ player' = [player EXCEPT ![c] = None]
    /\ UNCHANGED <<now, players, links, nextId, request, createResult, result,
                   invoked, jwtVars, info, unit>>

\* ------------------------------------------------- token service on its own
\* create_token(player_id) on a JwtServiceDefault; a new round of checks starts.
JwtCreate(p) ==
    /\ jwtIssued' = [player_id |-> p, at |-> now, result |-> CreateToken(p, now)]
    /\ jwtChecked' = None
    /\ UNCHANGED <<now, signInVars, info, unit>>

\* verify_token(token) on the same instance, for the token it issued last.
JwtVerify ==
    /\ jwtIssued # None
    /\ jwtChecked' = [token |-> jwtIssued.result.token, at |-> now,
                      result |-> VerifyToken(jwtIssued.result.token, now)]
    /\ UNCHANGED <<now, jwtIssued, signInVars, info, unit>>

\* A token with the claims of `token`, signed by a service that holds another
\* secret (jwt_service_decode_rejects_wrong_signatures).
SignedWithOtherSecret(token) ==
    Encode(token[1], DeserializeClaims(token[2]), "wrong-secret")

\* `token` with its signature segment altered.
WithAlteredSignature(token) ==
    <<token[1], token[2], [mac |-> <<"altered", token[3].mac>>]>>

ForgedTokens(token) == {SignedWithOtherSecret(token), WithAlteredSignature(token)}

\* verify_token(token) for a token whose signature does not match the key of
\* the instance.
JwtVerifyForged ==
    /\ jwtIssued # None
    /\ \E token \in ForgedTokens(jwtIssued.result.token) :
            jwtChecked' = [token |-> token, at |-> now,
                           result |-> VerifyToken(token, now)]
    /\ UNCHANGED <<now, jwtIssued, signInVars, info, unit>>

\* The sign_in handler: players_service.sign_in(..).await? and then
\* (StatusCode::OK, Json(SignInResponse { auth_token })); the rejection of `?`
\* is answered with into_response.
SignInResponse(c) ==
    IF IsErr(result[c]) THEN IntoResponse(result[c])
    ELSE [status |-> 200, body |-> [auth_token |-> result[c].token]]

\* ------------------------------------------------------- GET /players/info
\* An Authorization header value: `text` is its leading bytes, one per
\* element, followed by the string form of `token` unless that is NoToken;
\* `visible` tells whether all its bytes are visible ASCII, which is what
\* HeaderValue::to_str requires.
NoToken == <<>>

AuthorizationValue(text, token) == [visible |-> TRUE, text |-> text, token |-> token]

OpaqueValue == [visible |-> FALSE, text |-> <<>>, token |-> NoToken]

BearerPrefix == <<"B", "e", "a", "r", "e", "r", " ">>

\* The length in bytes of a header value: a token is at least as long as its
\* header segment.
ByteLen(h) ==
    Len(h.text) + (IF Len(h.token) = 0 THEN 0 ELSE HeaderSegmentLen)

\* &header_value_str["Bearer ".len()..]: the bytes of the value from index 7
\* on, whatever the first 7 bytes are. Indexing a str past its end panics.
\* Bytes left of `text`, or a cut inside the first segment of the token, give
\* a first segment that is not the header the token was issued with.
SliceFromBearerLen(h) ==
    IF ByteLen(h) < Len(BearerPrefix) THEN [kind |-> "Panic"]
    ELSE IF Len(h.text) = Len(BearerPrefix)
        THEN [kind |-> "Ok", token |-> h.token]
    ELSE IF Len(h.text) > Len(BearerPrefix)
        THEN LET rest == SubSeq(h.text, Len(BearerPrefix) + 1, Len(h.text))
             IN  IF Len(h.token) = 0
                 THEN [kind |-> "Ok", token |-> <<GarbledSegment(rest, 0, None)>>]
                 ELSE [kind |-> "Ok",
                       token |-> <<GarbledSegment(rest, 0, h.token[1]),
                                   h.token[2], h.token[3]>>]
    ELSE [kind |-> "Ok",
          token |-> <<GarbledSegment(<<>>, Len(BearerPrefix) - Len(h.text),
                                     h.token[1]),
                      h.token[2], h.token[3]>>]

\* An extractor that verifies an empty token when the header is absent.
AuthTokenClaimsFromRequestPartsNoMissing(header, at) ==
    IF header = None \/ ~header.visible
    THEN [result |-> VerifyToken(NoToken, at), verified |-> 1]
    ELSE LET sliced == SliceFromBearerLen(header)
         IN  IF sliced.kind = "Panic" THEN [result |-> sliced, verified |-> 0]
             ELSE [result |-> VerifyToken(sliced.token, at), verified |-> 1]

\* <AuthTokenClaims as FromRequestParts>::from_request_parts: the header is
\* read and converted with to_str().ok(); a value is sliced and verified, no
\* value is AuthTokenMissing. `verified` counts the calls of verify_token.
AuthTokenClaimsFromRequestParts(header, at) ==
    IF header = None \/ ~header.visible
    THEN [result |-> PlayersErr("AuthTokenMissing", "", ""), verified |-> 0]
    ELSE LET sliced == SliceFromBearerLen(header)
         IN  IF sliced.kind = "Panic" THEN [result |-> sliced, verified |-> 0]
             ELSE [result |-> VerifyToken(sliced.token, at), verified |-> 1]

NoRequest ==
    [pc |-> "idle", header |-> None, claims |-> None, found |-> None,
     response |-> None, verified |-> 0, lookups |-> 0]

\* GET /players/info arrives with Authorization header `header` (None: no such
\* header). <Player as FromRequestParts>::from_request_parts extracts the
\* claims, which does not suspend, and calls player_by_id(&claims.sub). A
\* rejection is answered with into_response; a panic ends the task of the
\* connection and no response is written.
PlayerInfoStart(header) ==
    /\ info.pc # "lookup"
    /\ LET extracted == AuthTokenClaimsFromRequestParts(header, now)
           r == extracted.result
       IN  info' =
            IF r.kind = "Panic"
            THEN [NoRequest EXCEPT !.pc = "panicked", !.header = header]
            ELSE IF IsErr(r)
            THEN [NoRequest EXCEPT !.pc = "done", !.header = header,
                                   !.response = IntoResponse(r),
                                   !.verified = extracted.verified]
            ELSE [NoRequest EXCEPT !.pc = "lookup", !.header = header,
                                   !.claims = r.claims,
                                   !.verified = extracted.verified,
                                   !.lookups = 1]
    /\ UNCHANGED <<now, signInVars, jwtVars, unit>>

\* A player lookup that reports no row as an error of the store (fetch_one).
PlayerByIdFetchOne(player_id, dbOk) ==
    IF ~dbOk THEN InternalErr("find player by id", "io")
    ELSE IF FindPlayerById(player_id) = {}
        THEN InternalErr("find player by id", "RowNotFound")
    ELSE [kind |-> "Ok", player |-> CHOOSE p \in FindPlayerById(player_id) : TRUE]

\* A player lookup that returns any row of the table (no where clause).
PlayerByIdAnyRow(player_id, dbOk) ==
    IF ~dbOk THEN InternalErr("find player by id", "io")
    ELSE IF players = {} THEN PlayerNotFound
    ELSE [kind |-> "Ok",
          player |-> CHOOSE p \in players : \A q \in players : p.id <= q.id]

\* PlayersServiceDefault::player_by_id, which is find_player_by_id:
\* fetch_optional(..).await.context("find player by id")?
\* .ok_or(PlayersError::PlayerNotFound).
PlayerById(player_id, dbOk) ==
    IF ~dbOk THEN InternalErr("find player by id", "io")
    ELSE IF FindPlayerById(player_id) = {} THEN PlayerNotFound
    ELSE [kind |-> "Ok", player |-> CHOOSE p \in FindPlayerById(player_id) : TRUE]

\* A lookup written as `delete from player where id = $1 returning ..`: the
\* row it answers with is gone afterwards.
PlayerInfoLookupReturnsDeletes(dbOk) ==
    /\ info.pc = "lookup"
    /\ LET r == PlayerById(info.claims.sub, dbOk)
       IN  /\ info' = [info EXCEPT !.pc = "done",
                                   !.found = r,
                                   !.response = IF IsErr(r) THEN IntoResponse(r)
                                                ELSE [status |-> 200, body |-> r.player]]
           /\ players' = IF dbOk THEN players \ FindPlayerById(info.claims.sub)
                         ELSE players
    /\ UNCHANGED <<now, links, nextId, pc, request, sign_in_method, player, tx,
                   createResult, result, invoked, jwtVars, unit>>

\* player_by_id(..).await? returns; on Ok the handler answers Json(player).
PlayerInfoLookupReturns(dbOk) ==
    /\ info.pc = "lookup"
    /\ LET r == PlayerById(info.claims.sub, dbOk)
       IN  info' = [info EXCEPT !.pc = "done",
                                !.found = r,
                                !.response = IF IsErr(r) THEN IntoResponse(r)
                                             ELSE [status |-> 200, body |-> r.player]]
    /\ UNCHANGED <<now, signInVars, jwtVars, unit>>

\* Time passes.
Tick(horizon) ==
    /\ now < horizon
    /\ now' = now + 1
    /\ UNCHANGED <<signInVars, jwtVars, info, unit>>

\* ------------------------------------------------------------ specification
InitSubsystem ==
    /\ now = 0
    /\ players = {}
    /\ links = {}
    /\ nextId = 1
    /\ pc = [c \in Calls |-> "idle"]
    /\ request = [c \in Calls |-> None]
    /\ sign_in_method = [c \in Calls |-> None]
    /\ player = [c \in Calls |-> None]
    /\ tx = [c \in Calls |-> NoTx]
    /\ createResult = [c \in Calls |-> None]
    /\ result = [c \in Calls |-> None]
    /\ invoked = [c \in Calls |-> NoCalls]
    /\ jwtIssued = None
    /\ jwtChecked = None
    /\ info = NoRequest

Init == InitSubsystem /\ unit = None

\* Concurrent sign_in calls, every collaborator free to fail, every call free
\* to be dropped.
Next ==
    \/ \E c \in Calls, u \in UserIds : SignInStart(c, u)
    \/ \E c \in Calls, outcome \in VerifierOutcomes : VerifyReturns(c, outcome)
    \/ \E c \in Calls, dbOk \in BOOLEAN, name \in ScreenNames, jwtOk \in BOOLEAN :
            FindReturns(c, dbOk, name, jwtOk)
    \/ \E c \in Calls, dbOk \in BOOLEAN : BeginReturns(c, dbOk)
    \/ \E c \in Calls, dbOk \in BOOLEAN : InsertPlayerReturns(c, dbOk)
    \/ \E c \in Calls, dbOk \in BOOLEAN : InsertSignInMethodReturns(c, dbOk)
    \/ \E c \in Calls, dbOk \in BOOLEAN, jwtOk \in BOOLEAN : CommitReturns(c, dbOk, jwtOk)
    \/ \E c \in Calls : Drop(c)
    \/ Tick(MaxNow)

Spec == Init /\ [][Next]_vars

\* sign_in calls made one after the other: a call starts only when every
\* earlier one has returned, and every collaborator succeeds.
SeqSignInStart(c, u) ==
    /\ \A d \in Calls : pc[d] \in {"idle", "done"}
    /\ SignInStart(c, u)

NextSeq ==
    \/ \E c \in Calls, u \in UserIds : SeqSignInStart(c, u)
    \/ \E c \in Calls : VerifyReturns(c, "Ok")
    \/ \E c \in Calls, name \in ScreenNames : FindReturns(c, TRUE, name, TRUE)
    \/ \E c \in Calls : BeginReturns(c, TRUE)
    \/ \E c \in Calls : InsertPlayerReturns(c, TRUE)
    \/ \E c \in Calls : InsertSignInMethodReturns(c, TRUE)
    \/ \E c \in Calls : CommitReturns(c, TRUE, TRUE)
    \/ Tick(MaxNow)

SpecSeq == Init /\ [][NextSeq]_vars

\* The token service exercised over the lifetime of the tokens it issues: the
\* tokens are issued up to clock value MaxNow and verified up to JwtHorizon.
NextJwt ==
    \/ now <= MaxNow /\ \E p \in PlayerIds : JwtCreate(p)
    \/ JwtVerify
    \/ JwtVerifyForged
    \/ Tick(JwtHorizon)

SpecJwt == Init /\ [][NextJwt]_vars

\* ------------------------------------- the claims of the tokens of a service
\* JwtServiceDefault::new(config): the ttl of the configuration is kept in
\* token_ttl; no method of the service takes &mut self.
JwtServiceNew(ttl) ==
    [token_ttl |-> ttl, clock |-> 0, player_id |-> 0, at |-> 0, claims |-> None]

\* create_token(player_id) on the service, at the clock value of the moment.
ClaimsCreate(player_id) ==
    /\ unit' = [unit EXCEPT !.player_id = player_id, !.at = unit.clock,
                            !.claims = CreateClaimsAt(player_id, unit.clock,
                                                      unit.token_ttl)]
    /\ UNCHANGED <<now, signInVars, jwtVars, info>>

\* A tick of the clock of the service.
ClaimsTick ==
    /\ unit.clock < MaxClock
    /\ unit' = [unit EXCEPT !.clock = @ + 1]
    /\ UNCHANGED <<now, signInVars, jwtVars, info>>

InitClaims ==
    /\ InitSubsystem
    /\ \E ttl \in 1..MaxTtlTicks : unit = JwtServiceNew(ttl)

NextClaims ==
    \/ \E p \in PlayerIds : ClaimsCreate(p)
    \/ ClaimsTick

SpecClaims == InitClaims /\ [][NextClaims]_vars

\* ------------------------------------------- Debug of the configuration
\* Strings are sequences of characters. The values of the string fields of a
\* configuration: every string over SecretAlphabet of at most MaxSecretLen
\* characters ("a" and "d" occur in the text of a rendering, "x" does not).
SecretAlphabet == {"a", "x"}

RECURSIVE StringsUpTo(_, _)
StringsUpTo(alphabet, n) ==
    IF n = 0 THEN {<<>>}
    ELSE LET shorter == StringsUpTo(alphabet, n - 1)
         IN  shorter \cup {Append(s, ch) : s \in shorter, ch \in alphabet}

SecretValues == StringsUpTo(SecretAlphabet, MaxSecretLen)

\* Debug of a String: the string between double quotes.
DebugString(s) == <<"\"">> \o s \o <<"\"">>

PostgresUsernameRedacted ==
    <<"<", "p", "o", "s", "t", "g", "r", "e", "s", "_", "u", "s", "e", "r",
      "n", "a", "m", "e", "_", "r", "e", "d", "a", "c", "t", "e", "d", ">">>

PostgresPasswordRedacted ==
    <<"<", "p", "o", "s", "t", "g", "r", "e", "s", "_", "p", "a", "s", "s",
      "w", "o", "r", "d", "_", "r", "e", "d", "a", "c", "t", "e", "d", ">">>

JwtSecretRedacted ==
    <<"<", "j", "w", "t", "_", "s", "e", "c", "r", "e", "t", "_", "r", "e",
      "d", "a", "c", "t", "e", "d", ">">>

PostgresConfigOpen ==
    <<"P", "o", "s", "t", "g", "r", "e", "s", "C", "o", "n", "f", "i", "g",
      " ", "{", " ", "h", "o", "s", "t", ":", " ">>

PostgresConfigPort ==
    <<",", " ", "p", "o", "r", "t", ":", " ", "5", "4", "3", "2", ",", " ",
      "u", "s", "e", "r", "n", "a", "m", "e", ":", " ">>

PostgresConfigPassword ==
    <<",", " ", "p", "a", "s", "s", "w", "o", "r", "d", ":", " ">>

PostgresConfigDatabase ==
    <<",", " ", "d", "a", "t", "a", "b", "a", "s", "e", ":", " ">>

JwtConfigOpen ==
    <<"J", "w", "t", "C", "o", "n", "f", "i", "g", " ", "{", " ", "s", "e",
      "c", "r", "e", "t", ":", " ">>

JwtConfigTtl ==
    <<",", " ", "t", "t", "l", ":", " ", "T", "i", "m", "e", "D", "e", "l",
      "t", "a", " ", "{", " ", "s", "e", "c", "s", ":", " ", "3", "6", "0",
      "0", ",", " ", "n", "a", "n", "o", "s", ":", " ", "0", " ", "}", " ",
      "}">>

ConfigOpen ==
    <<"C", "o", "n", "f", "i", "g", " ", "{", " ", "s", "e", "r", "v", "e",
      "r", ":", " ", "S", "e", "r", "v", "e", "r", "C", "o", "n", "f", "i",
      "g", " ", "{", " ", "h", "o", "s", "t", ":", " ", "\"", "1", "2",
      "7", ".", "0", ".", "0", ".", "1", "\"", ",", " ", "p", "o", "r",
      "t", ":", " ", "8", "0", "8", "0", " ", "}", ",", " ", "p", "o", "s",
      "t", "g", "r", "e", "s", ":", " ">>

ConfigJwt ==
    <<",", " ", "j", "w", "t", ":", " ">>

ConfigClose ==
    <<",", " ", "g", "o", "o", "g", "l", "e", "_", "i", "d", "_", "t", "o",
      "k", "e", "n", "_", "v", "e", "r", "i", "f", "i", "e", "r", ":", " ",
      "I", "d", "T", "o", "k", "e", "n", "V", "e", "r", "i", "f", "i", "e",
      "r", "C", "o", "n", "f", "i", "g", " ", "}">>

BraceClose == <<" ", "}">>

\* A Debug of PostgresConfig as #[derive(Debug)] of std gives it: every field.
DebugPostgresConfigDerived(c) ==
    PostgresConfigOpen \o DebugString(c.host)
    \o PostgresConfigPort \o DebugString(c.username)
    \o PostgresConfigPassword \o DebugString(c.password)
    \o PostgresConfigDatabase \o DebugString(c.database) \o BraceClose

\* #[derive(derive_more::Debug)] of PostgresConfig: username and password are
\* rendered by their #[debug("<..._redacted>")] format strings.
DebugPostgresConfig(c) ==
    PostgresConfigOpen \o DebugString(c.host)
    \o PostgresConfigPort \o PostgresUsernameRedacted
    \o PostgresConfigPassword \o PostgresPasswordRedacted
    \o PostgresConfigDatabase \o DebugString(c.database) \o BraceClose

\* #[derive(derive_more::Debug)] of JwtConfig: secret is rendered by its
\* format string, ttl by the Debug of the duration.
DebugJwtConfig(c) == JwtConfigOpen \o JwtSecretRedacted \o JwtConfigTtl

\* #[derive(Debug)] of Config: the Debug of every field.
DebugConfig(c) ==
    ConfigOpen \o DebugPostgresConfig(c.postgres)
    \o ConfigJwt \o DebugJwtConfig(c.jwt) \o ConfigClose

\* The configurations rendered: the secret fields take every value, the
\* database name one of two.
Configs ==
    {[postgres |-> [host |-> <<"d", "b">>, username |-> u, password |-> pw,
                    database |-> db],
      jwt |-> [secret |-> sec]] :
        u \in SecretValues, pw \in SecretValues, sec \in SecretValues,
        db \in {<<"d", "b">>, <<"x">>}}

\* format!("{config:?}")
FormatConfig(config) ==
    /\ unit = None
    /\ unit' = [fn |-> "Config", config |-> config, debug |-> DebugConfig(config)]
    /\ UNCHANGED <<now, signInVars, jwtVars, info>>

\* -------------------------------------------------- Debug of SecretConfig
\* The wrapped values of a SecretConfig<T>, each with its type T: string
\* slices, owned strings and 32-bit integers (written by their digits).
SecretConfigValues ==
    {[type |-> t, value |-> v] : t \in {"&str", "String"}, v \in SecretValues}
    \cup {[type |-> "i32", value |-> v] :
            v \in StringsUpTo({"1", "2"}, MaxSecretLen) \ {<<>>}}

\* std::any::type_name_of_val(&self.value)
TypeNameOfVal(secret) ==
    CASE secret.type = "&str" -> <<"&", "s", "t", "r">>
      [] secret.type = "i32" -> <<"i", "3", "2">>
      [] OTHER -> <<"a", "l", "l", "o", "c", ":", ":", "s", "t", "r", "i", "n", "g", ":", ":", "S", "t", "r", "i", "n", "g">>

\* A Debug of SecretConfig as #[derive(Debug)] gives it: the wrapped value.
SecretConfigDebugDerived(secret) ==
    <<"S", "e", "c", "r", "e", "t", "C", "o", "n", "f", "i", "g", " ", "{", " ", "v", "a", "l", "u", "e", ":", " ">> \o secret.value \o BraceClose

\* impl Debug for SecretConfig<T>: format!("Secret({type_name})")
SecretConfigDebug(secret) ==
    <<"S", "e", "c", "r", "e", "t", "(">> \o TypeNameOfVal(secret) \o <<")">>

\* format!("{secret:?}")
FormatSecretConfig(secret) ==
    /\ unit = None
    /\ unit' = [fn |-> "SecretConfig", secret |-> secret,
                debug |-> SecretConfigDebug(secret)]
    /\ UNCHANGED <<now, signInVars, jwtVars, info>>

\* Configurations and secrets rendered on their own: one rendering of one
\* value.
NextConfig ==
    /\ unit = None
    /\ \/ \E config \in Configs : FormatConfig(config)
       \/ \E secret \in SecretConfigValues : FormatSecretConfig(secret)

SpecConfig == Init /\ [][NextConfig]_vars

\* ------------------------------------------------ Validation of names
\* A name string is a sequence of runs, a run being one character repeated n
\* times; adjacent runs hold different characters. The characters: the space
\* and the letter a (one byte of UTF-8 each), e with acute accent (two bytes)
\* and the ideographic space (three bytes, white space).
NameChars == {" ", "a", "U+00E9", "U+3000"}

RunLengths == {1, 2, 10, 15}

\* char::len_utf8
LenUtf8(ch) ==
    CASE ch \in {" ", "a"} -> 1
      [] ch = "U+00E9" -> 2
      [] OTHER -> 3

\* char::is_whitespace
IsWhitespace(ch) == ch \in {" ", "U+3000"}

RECURSIVE NameStrings(_)
NameStrings(runs) ==
    IF runs = 0 THEN {<<>>}
    ELSE LET shorter == NameStrings(runs - 1)
         IN  shorter
             \cup {Append(s, [ch |-> ch, n |-> n]) :
                     s \in {t \in shorter : Len(t) = runs - 1},
                     ch \in NameChars, n \in RunLengths}

\* The strings handed to the validations.
NameInputs ==
    {s \in NameStrings(MaxRuns) :
        \A i \in 1..(Len(s) - 1) : s[i].ch # s[i + 1].ch}

\* str::len: the length in bytes.
RECURSIVE StrLen(_)
StrLen(s) ==
    IF s = <<>> THEN 0 ELSE Head(s).n * LenUtf8(Head(s).ch) + StrLen(Tail(s))

\* str::chars().count(): the length in characters.
RECURSIVE CharsCount(_)
CharsCount(s) == IF s = <<>> THEN 0 ELSE Head(s).n + CharsCount(Tail(s))

RECURSIVE TrimStart(_)
TrimStart(s) ==
    IF s # <<>> /\ IsWhitespace(Head(s).ch) THEN TrimStart(Tail(s)) ELSE s

RECURSIVE TrimEnd(_)
TrimEnd(s) ==
    IF s # <<>> /\ IsWhitespace(s[Len(s)].ch)
    THEN TrimEnd(SubSeq(s, 1, Len(s) - 1))
    ELSE s

\* str::trim
Trim(s) == TrimEnd(TrimStart(s))

NameOk(value) == [kind |-> "Ok", value |-> value]
NameErr(error) == [kind |-> "Err", error |-> error]

\* PlayerScreenName::MAX_SIZE
MAX_SIZE == 30

\* from_str measuring the name in characters.
PlayerScreenNameFromStrInChars(s) ==
    LET t == Trim(s)
    IN  IF t = <<>> THEN NameErr("Empty")
        ELSE IF CharsCount(t) > MAX_SIZE THEN NameErr("ExceedsMaxSize")
        ELSE NameOk(t)

\* <PlayerScreenName as FromStr>::from_str
PlayerScreenNameFromStr(s) ==
    LET t == Trim(s)
    IN  IF t = <<>> THEN NameErr("Empty")
        ELSE IF StrLen(t) > MAX_SIZE THEN NameErr("ExceedsMaxSize")
        ELSE NameOk(t)

\* PlayerName::MIN_LENGTH, PlayerName::MAX_LENGTH
MIN_LENGTH == 2
MAX_LENGTH == 20

\* from_str without the TooShort arm.
PlayerNameFromStrNoMinimum(value) ==
    LET trimmed == Trim(value)
    IN  IF trimmed = <<>> THEN NameErr("Empty")
        ELSE IF StrLen(trimmed) > MAX_LENGTH THEN NameErr("TooLong")
        ELSE NameOk(trimmed)

\* PlayerName::from_str
PlayerNameFromStr(value) ==
    LET trimmed == Trim(value)
    IN  IF trimmed = <<>> THEN NameErr("Empty")
        ELSE IF StrLen(trimmed) < MIN_LENGTH THEN NameErr("TooShort")
        ELSE IF StrLen(trimmed) > MAX_LENGTH THEN NameErr("TooLong")
        ELSE NameOk(trimmed)

\* <PlayerName as TryFrom<Cow<str>>>::try_from
PlayerNameTryFrom(value) == PlayerNameFromStr(value)

\* The JSON values handed to the deserialization of a PlayerName: strings and
\* a value that is not a string.
JsonValues ==
    {[json |-> "String", value |-> s] : s \in NameInputs}
    \cup {[json |-> "Number", value |-> <<>>]}

\* #[serde(try_from = "Cow<'_, str>")]: the value is deserialized as a string
\* and handed to try_from, whose error becomes the error of the
\* deserialization.
PlayerNameDeserialize(json) ==
    IF json.json # "String" THEN NameErr("invalid type")
    ELSE PlayerNameTryFrom(json.value)

\* "...".parse::<PlayerScreenName>()
ScreenNameParse(s) ==
    /\ unit = None
    /\ unit' = [fn |-> "PlayerScreenName::from_str", input |-> s,
                out |-> PlayerScreenNameFromStr(s)]
    /\ UNCHANGED <<now, signInVars, jwtVars, info>>

\* PlayerName::from_str(value)
PlayerNameParse(value) ==
    /\ unit = None
    /\ unit' = [fn |-> "PlayerName::from_str", input |-> value,
                out |-> PlayerNameFromStr(value)]
    /\ UNCHANGED <<now, signInVars, jwtVars, info>>

\* serde_json::from_value::<PlayerName>(json)
PlayerNameFromJson(json) ==
    /\ unit = None
    /\ unit' = [fn |-> "PlayerName::deserialize", input |-> json.value,
                json |-> json.json, out |-> PlayerNameDeserialize(json)]
    /\ UNCHANGED <<now, signInVars, jwtVars, info>>

\* The validations of names on their own: one call on one input.
NextNames ==
    /\ unit = None
    /\ \/ \E s \in NameInputs : ScreenNameParse(s)
       \/ \E value \in NameInputs : PlayerNameParse(value)
       \/ \E json \in JsonValues : PlayerNameFromJson(json)

SpecNames == Init /\ [][NextNames]_vars

\* ------------------------------------------- a session token over its life
\* One token, returned by a sign-in, is followed from its issuance past its
\* expiry: `later` holds the players signed in after it was issued, `rejected`
\* tells whether it has been rejected as expired, `last` is its latest
\* verification with the sign-ins that preceded it.
SessionNew ==
    [token |-> NoToken, later |-> {}, rejected |-> FALSE, last |-> None]

\* sign_in returns with create_token(player.id) for player p: the first token
\* is the one followed, the others are later sign-ins.
SessionSignIn(p) ==
    /\ IF unit.token = NoToken
       THEN /\ now <= MaxNow
            /\ unit' = [unit EXCEPT !.token = IssueToken([id |-> p], TRUE).token]
       ELSE /\ p \notin unit.later
            /\ IssueToken([id |-> p], TRUE).kind = "Ok"
            /\ unit' = [unit EXCEPT !.later = @ \cup {p}]
    /\ UNCHANGED <<now, signInVars, jwtVars, info>>

\* verify_token(token) for the followed token.
SessionVerify ==
    /\ unit.token # NoToken
    /\ LET r == VerifyToken(unit.token, now)
       IN  unit' = [unit EXCEPT
                      !.last = [at |-> now, result |-> r, after |-> unit.later],
                      !.rejected = @ \/ (r.kind = "AuthToken"
                                         /\ r.cause = "ExpiredSignature")]
    /\ UNCHANGED <<now, signInVars, jwtVars, info>>

InitSession == InitSubsystem /\ unit = SessionNew

NextSession ==
    \/ \E p \in PlayerIds : SessionSignIn(p)
    \/ SessionVerify
    \/ Tick(JwtHorizon)

SpecSession == InitSession /\ [][NextSession]_vars

\* The tokens sign_in has returned to its callers.
ReturnedTokens == {result[c].token : c \in {d \in Calls : result[d].kind = "Ok"}}

\* The tokens a client can present: those sign_in returned, a token of the
\* service for any player id (the player need not be in the store), one issued
\* long enough ago to have expired, and a forged one.
PresentedTokens ==
    ReturnedTokens
    \cup {CreateToken(p, 0).token : p \in PlayerIds}
    \cup {CreateToken(1, 0 - JwtHorizon).token,
          SignedWithOtherSecret(CreateToken(1, 0).token)}

\* The Authorization headers of the requests: none, one whose bytes are not
\* visible ASCII, "Bearer " and a token, "Bearer " alone, "Bearer x", values
\* shorter than "Bearer ", a token without a scheme, a token after "Basic ",
\* a token after "Digest " (seven bytes, as "Bearer "), a token with a byte
\* outside the base64url alphabet in front.
PresentedHeaders ==
    {None, OpaqueValue}
    \cup {AuthorizationValue(BearerPrefix, t) : t \in PresentedTokens \cup {NoToken}}
    \cup {AuthorizationValue(text, NoToken) :
            text \in {<<>>, <<"a", "b", "c">>, <<"B", "e", "a", "r", "e", "r">>,
                      BearerPrefix \o <<"x">>}}
    \cup {AuthorizationValue(text, CreateToken(1, 0).token) :
            text \in {<<>>, <<"B", "a", "s", "i", "c", " ">>,
                      <<"D", "i", "g", "e", "s", "t", " ">>,
                      BearerPrefix \o <<"!">>, BearerPrefix \o <<"#">>}}

\* Sign-ins made one after the other, the verifier free to fail, and GET
\* /players/info requests made at any time in between, the store free to fail
\* their lookup.
NextAuth ==
    \/ \E c \in Calls, u \in UserIds : SeqSignInStart(c, u)
    \/ \E c \in Calls, outcome \in VerifierOutcomes : VerifyReturns(c, outcome)
    \/ \E c \in Calls, name \in ScreenNames : FindReturns(c, TRUE, name, TRUE)
    \/ \E c \in Calls : BeginReturns(c, TRUE)
    \/ \E c \in Calls : InsertPlayerReturns(c, TRUE)
    \/ \E c \in Calls : InsertSignInMethodReturns(c, TRUE)
    \/ \E c \in Calls : CommitReturns(c, TRUE, TRUE)
    \/ \E header \in PresentedHeaders : PlayerInfoStart(header)
    \/ \E dbOk \in BOOLEAN : PlayerInfoLookupReturns(dbOk)
    \/ Tick(MaxNow)

SpecAuth == Init /\ [][NextAuth]_vars

\* ------------------------------------------------------------------ claims
\* The error a call got comes from a collaborator that failed (the verifier,
\* the connection to the store, the token encoder), not from what concurrent
\* calls did.
CollaboratorFault(r) ==
    IsErr(r) /\ r.cause \in {"io", "encode", "Validation", "JwksFetch"}

\* create_player_with_sign_in_method failed on the existing sign-in-method key.
KeyConflict(r) == IsErr(r) /\ r.cause = "unique_violation"

\* The sign-in-method rows persisted for external user u, and the player
\* records they lead to.
LinksOf(u) == {l \in links : l.provider = "Google" /\ l.user_id = u}

PlayersLinkedTo(u) == {p \in players : \E l \in LinksOf(u) : l.player_id = p.id}

\* C1: two sign_in calls for the same external identity that both saw 'not
\* found' and both attempted creation, with no collaborator failing, both
\* return a token, and the two tokens have the same subject.
C1_RacingSignInsBothGetSamePlayer ==
    \A c, d \in Calls :
        ( /\ c # d
          /\ pc[c] = "done" /\ pc[d] = "done"
          /\ request[c] = request[d]
          /\ invoked[c].create = 1 /\ invoked[d].create = 1
          /\ ~CollaboratorFault(result[c]) /\ ~CollaboratorFault(result[d]) )
        => /\ result[c].kind = "Ok"
           /\ result[d].kind = "Ok"
           /\ TokenSub(result[c].token) = TokenSub(result[d].token)

\* C2: in every reachable state each (provider, external-user-id) pair has at
\* most one sign-in-method row and resolves to at most one player record.
C2_OnePlayerPerExternalIdentity ==
    \A u \in UserIds :
        /\ Cardinality(LinksOf(u)) <= 1
        /\ Cardinality(PlayersLinkedTo(u)) <= 1

\* Two calls for one external identity both attempted creation and have
\* returned, and the identity resolves to one player.
C2_Witness ==
    \E c, d \in Calls :
        /\ c # d
        /\ pc[c] = "done" /\ pc[d] = "done"
        /\ request[c] = request[d]
        /\ invoked[c].create = 1 /\ invoked[d].create = 1
        /\ Cardinality(PlayersLinkedTo(request[c].id_token.sub)) = 1

\* C3: a sign_in call whose creation failed on the existing sign-in-method key
\* looks the player up a second time and returns a token, not an error (unless
\* a collaborator fails during the recovery).
C3_ConflictIsRecoveredByLookup ==
    \A c \in Calls :
        (pc[c] = "done" /\ KeyConflict(createResult[c]))
        => /\ invoked[c].find = 2
           /\ (result[c].kind = "Ok" \/ CollaboratorFault(result[c]))

\* C4: a sign_in call returns a uniqueness conflict as an internal error only
\* after it has re-attempted once, that is when it is the second conflict of
\* the call.
C4_ConflictErrorOnlyAfterOneRetry ==
    \A c \in Calls :
        (pc[c] = "done" /\ KeyConflict(result[c]))
        => /\ result[c].kind = "Internal"
           /\ invoked[c].create = 2

\* C5: sign_in calls for one external identity made one after the other, all
\* collaborators succeeding, return tokens with one and the same subject; one
\* player record and one link exist for the identity and exactly one of the
\* calls created a record.
C5_SequentialSignInsAreIdempotent ==
    \A u \in UserIds :
        LET returned == {c \in Calls : pc[c] = "done" /\ request[c].id_token.sub = u}
        IN  returned # {} =>
                /\ \A c \in returned : result[c].kind = "Ok"
                /\ \A c, d \in returned :
                        TokenSub(result[c].token) = TokenSub(result[d].token)
                /\ Cardinality(LinksOf(u)) = 1
                /\ Cardinality(PlayersLinkedTo(u)) = 1
                /\ \A c \in returned : \E p \in PlayersLinkedTo(u) :
                        p.id = TokenSub(result[c].token)
                /\ Cardinality({c \in returned : invoked[c].create = 1}) = 1

\* Every call has signed in the same external identity and returned.
C5_Witness ==
    /\ \A c \in Calls : pc[c] = "done" /\ result[c].kind = "Ok"
    /\ \A c, d \in Calls : request[c] = request[d]
    /\ \E c \in Calls : invoked[c].create = 0

\* C6: the subject of every token sign_in has returned is the id of a player
\* record present in the store.
C6_TokenSubjectIsPersisted ==
    \A c \in Calls :
        result[c].kind = "Ok" => \E p \in players : p.id = TokenSub(result[c].token)

\* One call returned a token for the player it created, another for a player
\* it found.
C6_Witness ==
    \E c, d \in Calls :
        /\ result[c].kind = "Ok" /\ invoked[c].create = 1
        /\ result[d].kind = "Ok" /\ invoked[d].create = 0

\* C7: in every state another operation can observe, a player row is persisted
\* exactly when its sign-in-method row is: no player row without its link and
\* no link without its player row.
C7_CreateIsAtomic ==
    /\ \A p \in players : \E l \in links : l.player_id = p.id
    /\ \A l \in links : \E p \in players : p.id = l.player_id

\* A creation failed on the sign-in-method insert after its player insert had
\* succeeded, while another creation is persisted.
C7_Witness ==
    /\ players # {}
    /\ \E c \in Calls :
        /\ IsErr(createResult[c])
        /\ createResult[c].context = "create sign in method"

\* C8: create_player_with_sign_in_method reports every failure but the one on
\* the existing sign-in-method key as the generic internal error, and that one
\* as another kind.
C8_ConflictIsADistinctErrorKind ==
    \A c \in Calls :
        IsErr(createResult[c]) =>
            (createResult[c].kind = "Internal" <=> ~KeyConflict(createResult[c]))

\* C9: verify_token, applied at the time of issuance to the token create_token
\* returned for player id P, succeeds with claims whose sub is P.
C9_TokenRoundTrip ==
    ( /\ jwtChecked # None
      /\ jwtChecked.token = jwtIssued.result.token
      /\ jwtChecked.at = jwtIssued.at )
    => /\ jwtChecked.result.kind = "Ok"
       /\ jwtChecked.result.claims.sub = jwtIssued.player_id

\* A token has been verified at the second it was issued.
C9_Witness ==
    /\ jwtChecked # None
    /\ jwtChecked.at = jwtIssued.at
    /\ jwtChecked.token = jwtIssued.result.token

\* The signature segment of a token is the one the key of the service gives.
CorrectlySigned(token) == token[3] = Sign(Secret, token[1], token[2])

\* C10: a correctly signed token is rejected as expired whenever it is verified
\* at least one second past exp plus the leeway, is accepted one second before
\* exp, and is never rejected as expired at or before exp.
C10_ExpiryBoundary ==
    (jwtChecked # None /\ CorrectlySigned(jwtChecked.token)) =>
        LET exp == DeserializeClaims(jwtChecked.token[2]).exp
            expired == /\ jwtChecked.result.kind = "AuthToken"
                       /\ jwtChecked.result.cause = "ExpiredSignature"
        IN  /\ jwtChecked.at >= exp + Leeway + 1 => expired
            /\ jwtChecked.at = exp - 1 => jwtChecked.result.kind = "Ok"
            /\ expired => jwtChecked.at > exp

\* A token was verified one second past exp plus the leeway.
C10_Witness ==
    /\ jwtChecked # None
    /\ CorrectlySigned(jwtChecked.token)
    /\ jwtChecked.at = DeserializeClaims(jwtChecked.token[2]).exp + Leeway + 1
    /\ jwtChecked.result.kind = "AuthToken"

\* C11: a token whose signature does not match the key of the service (signed
\* with another secret, or with its signature segment altered) is rejected with
\* AuthToken(InvalidSignature), whatever the clock says about its exp.
C11_BadSignatureIsInvalidSignature ==
    (jwtChecked # None /\ ~CorrectlySigned(jwtChecked.token)) =>
        /\ jwtChecked.result.kind = "AuthToken"
        /\ jwtChecked.result.cause = "InvalidSignature"

\* A token with an altered signature has been verified after exp plus the leeway.
C11_Witness ==
    /\ jwtChecked # None
    /\ jwtChecked.token = WithAlteredSignature(jwtIssued.result.token)
    /\ jwtChecked.at > DeserializeClaims(jwtChecked.token[2]).exp + Leeway
    /\ jwtChecked.result.kind = "AuthToken"

\* The error response with the given status and id.
IsErrorResponse(response, status, id) ==
    /\ response # None
    /\ response.status = status
    /\ DOMAIN response.body = {"module", "id", "dev_message"}
    /\ response.body.module = "players"
    /\ response.body.id = id

\* C12: a request with no Authorization header is answered 401 with ApiError
\* { module "players", id 3, dev_message "auth token is missing" }, and neither
\* verify_token nor a player lookup is called for it.
C12_MissingHeaderIsAuthTokenMissing ==
    (info.pc # "idle" /\ info.header = None) =>
        /\ info.pc = "done"
        /\ IsErrorResponse(info.response, 401, 3)
        /\ info.response.body.dev_message = <<"auth token is missing">>
        /\ info.verified = 0
        /\ info.lookups = 0
        /\ info.claims = None

\* A request without the header has been answered.
C12_Witness ==
    /\ info.pc = "done"
    /\ info.header = None
    /\ info.response.status = 401

\* A header value that is not "Bearer " followed by a three-segment token.
SyntacticallyInvalid(header) ==
    ~(header.text = BearerPrefix /\ Len(header.token) = 3)

\* C13: every request whose Authorization header is present (and visible
\* ASCII) but not "Bearer " followed by a token is answered 401 with id 2
\* (AuthToken); its connection is never aborted by a panic.
C13_InvalidHeaderIsAuthTokenError ==
    ( /\ info.pc \in {"done", "panicked"}
      /\ info.header # None
      /\ info.header.visible
      /\ SyntacticallyInvalid(info.header) )
    => /\ info.pc = "done"
       /\ IsErrorResponse(info.response, 401, 2)

\* C14: a request whose token verifies and whose subject is not a player of the
\* store, the store answering the lookup, ends with PlayerNotFound and is
\* answered 401 with id 1, not with a 5xx status.
C14_UnresolvableSubjectIsUnauthorized ==
    ( /\ info.pc = "done"
      /\ info.claims # None
      /\ ~CollaboratorFault(info.found)
      /\ ~\E p \in players : p.id = info.claims.sub )
    => /\ info.found.kind = "PlayerNotFound"
       /\ IsErrorResponse(info.response, 401, 1)
       /\ info.response.status < 500

\* A verified token for a player id the store does not hold has been answered.
C14_Witness ==
    /\ info.pc = "done"
    /\ info.claims # None
    /\ info.verified = 1 /\ info.lookups = 1
    /\ info.found.kind = "PlayerNotFound"
    /\ ~\E p \in players : p.id = info.claims.sub

\* A sign_in call that created a player and returned a token.
CreatedAndSignedIn(c) == result[c].kind = "Ok" /\ createResult[c].kind = "Ok"

\* C17: once a sign_in that created a player has returned a token, a request
\* presenting "Bearer " and that token is authenticated as that player, and,
\* the store answering its lookup, is answered 200 with exactly the player that
\* sign_in persisted: its id (the subject of the token), its screen name and
\* its joined_at.
C17_PlayerInfoReturnsCreatedPlayer ==
    [][ \A c \in Calls :
          /\ ( /\ CreatedAndSignedIn(c)
               /\ info.pc # "lookup"
               /\ info' # info
               /\ info'.header = AuthorizationValue(BearerPrefix, result[c].token) )
             => /\ info'.pc = "lookup"
                /\ info'.claims.sub = createResult[c].created.id
          /\ ( /\ CreatedAndSignedIn(c)
               /\ info.pc = "lookup"
               /\ info.header = AuthorizationValue(BearerPrefix, result[c].token)
               /\ info'.pc = "done"
               /\ ~CollaboratorFault(info'.found) )
             => /\ info'.response.status = 200
                /\ info'.response.body = createResult[c].created
                /\ info'.response.body.id = DeserializeClaims(result[c].token[2]).sub
    ]_vars

\* The token of a sign_in that created a player has been presented and
\* answered, after another player was created too.
C17_Witness ==
    \E c \in Calls :
        /\ result[c].kind = "Ok"
        /\ createResult[c].kind = "Ok"
        /\ info.pc = "done"
        /\ info.header = AuthorizationValue(BearerPrefix, result[c].token)
        /\ info.response.status = 200
        /\ Cardinality(players) = 2

\* The variants of PlayersError, and the status and id the claim gives each.
ErrorKinds == {"IdToken", "PlayerNotFound", "AuthToken", "AuthTokenMissing", "Internal"}

\* An error of kind k with nothing in it.
ErrorOfKind(k) == [kind |-> k, context |-> "", cause |-> "", detail |-> <<>>]

StatusAndId ==
    [IdToken |-> <<400, 0>>, PlayerNotFound |-> <<401, 1>>, AuthToken |-> <<401, 2>>,
     AuthTokenMissing |-> <<401, 3>>, Internal |-> <<500, 4>>]

\* The error responses the subsystem has produced, each with its error kind
\* where the state holds it.
ErrorResponses ==
    {<<result[c].kind, SignInResponse(c)>> : c \in {d \in Calls : IsErr(result[d])}}
    \cup (IF info.pc = "done" /\ IsErr(info.found)
          THEN {<<info.found.kind, info.response>>} ELSE {})

\* C15: into_response maps every error kind to its own id: IdToken 0 (400),
\* PlayerNotFound 1 (401), AuthToken 2 (401), AuthTokenMissing 3 (401),
\* Internal 4 (500); the module is "players"; only Internal is a 5xx. It holds
\* of the mapping on every kind and of every error response produced.
C15_ErrorMappingTotalAndInjective ==
    /\ \A k \in ErrorKinds :
        LET r == IntoResponse(ErrorOfKind(k))
        IN  /\ IsErrorResponse(r, StatusAndId[k][1], StatusAndId[k][2])
            /\ (r.status >= 500 <=> k = "Internal")
    /\ \A k, l \in ErrorKinds :
        IntoResponse(ErrorOfKind(k)).body.id
            = IntoResponse(ErrorOfKind(l)).body.id => k = l
    /\ \A kr \in ErrorResponses :
        /\ IsErrorResponse(kr[2], StatusAndId[kr[1]][1], StatusAndId[kr[1]][2])
        /\ (kr[2].status >= 500 <=> kr[1] = "Internal")
    /\ (info.pc = "done" /\ info.response.status # 200) =>
        \E k \in ErrorKinds :
            IsErrorResponse(info.response, StatusAndId[k][1], StatusAndId[k][2])

\* A sign-in has been answered with the IdToken error and a request for the
\* player with an error of the store.
C15_Witness ==
    /\ \E c \in Calls : result[c].kind = "IdToken" /\ SignInResponse(c).status = 400
    /\ info.pc = "done"
    /\ info.found.kind = "Internal"
    /\ info.response.status = 500

\* C16: a sign-in whose verifier could not be reached (its keys could not be
\* fetched) is answered as an internal error, 5xx with id 4, and one whose
\* token the verifier rejects as invalid is answered 4xx with id 0.
C16_VerifierUnreachableIsInternal ==
    \A c \in Calls :
        (pc[c] = "done" /\ invoked[c].find = 0) =>
            /\ result[c].cause = "JwksFetch" =>
                    /\ SignInResponse(c).status >= 500
                    /\ SignInResponse(c).body.id = 4
            /\ result[c].cause = "Validation" =>
                    /\ SignInResponse(c).status = 400
                    /\ SignInResponse(c).body.id = 0

\* C18: no step deletes or changes a persisted player or sign-in-method row:
\* the sets of rows only grow, and the row of a player id stays the same.
C18_PersistedRowsOnlyGrow ==
    [][ /\ players \subseteq players'
        /\ links \subseteq links'
        /\ \A p \in players : \A q \in players' : q.id = p.id => q = p
        /\ \A l \in links : \A m \in links' : LinkKey(m) = LinkKey(l) => m = l
    ]_vars

\* Two players are persisted, each with its link, and a request for one of
\* them has been answered.
C18_Witness ==
    /\ Cardinality(players) = 2
    /\ Cardinality(links) = 2
    /\ info.pc = "done"
    /\ info.response.status = 200

\* The errors the identity verifier answers with.
VerifierErrors == VerifierOutcomes \ {"Ok"}

\* C19: when the verifier fails, sign_in returns IdToken carrying the error of
\* the verifier, having called the verifier once and no other collaborator,
\* and the store is as it was.
C19_VerifierFailureFrame ==
    [][ \A c \in Calls :
          (pc[c] = "verify" /\ pc'[c] = "done") =>
              /\ result'[c].kind = "IdToken"
              /\ result'[c].cause \in VerifierErrors
              /\ result'[c].context = ""
              /\ invoked'[c] = [verify |-> 1, find |-> 0, create |-> 0, token |-> 0]
              /\ players' = players
              /\ links' = links
    ]_vars

\* A call ended on a verifier error while the store holds a player.
C19_Witness ==
    \E c \in Calls :
        /\ pc[c] = "done"
        /\ result[c].kind = "IdToken"
        /\ invoked[c].verify = 1
        /\ players # {}

\* C20: a sign_in that returns from the lookup without a player (the lookup
\* failed with an error other than PlayerNotFound) returns that error as an
\* internal error, creates nothing and issues no token; a sign_in whose
\* creation failed on something else than the existing key returns the error
\* of the creation as an internal error and issues no token.
C20_StoreFailuresAreInternal ==
    [][ \A c \in Calls :
          /\ ( /\ pc[c] = "find" /\ pc'[c] = "done"
               /\ invoked'[c].token = 0 )
             => /\ result'[c].kind = "Internal"
                /\ result'[c].context = "find player with sign in method"
                /\ invoked'[c].create = 0
                /\ players' = players /\ links' = links
          /\ ( /\ pc[c] \in {"begin", "insert_player", "insert_link", "commit"}
               /\ pc'[c] = "done"
               /\ IsErr(createResult'[c])
               /\ ~KeyConflict(createResult'[c]) )
             => /\ result'[c] = createResult'[c]
                /\ result'[c].kind = "Internal"
                /\ invoked'[c].token = 0
                /\ players' = players /\ links' = links
    ]_vars

\* One call ended on a failed lookup and another on a failed commit.
C20_Witness ==
    \E c, d \in Calls :
        /\ pc[c] = "done" /\ pc[d] = "done"
        /\ IsErr(result[c])
        /\ result[c].context = "find player with sign in method"
        /\ invoked[c].create = 0
        /\ createResult[d].kind = "Internal"
        /\ createResult[d].context = "commit transaction"
        /\ result[d] = createResult[d]

\* The external user id of the request of call c.
UserOf(c) == request[c].id_token.sub

\* C21: a sign_in whose lookup found a player issues the token for the id of
\* that player, the one linked to the identity of the request, never calls
\* create_player_with_sign_in_method, and leaves the store as it was; the
\* store is written only by the commit of a call that called the creation.
C21_KnownIdentityFrame ==
    [][ /\ \A c \in Calls :
            ( /\ pc[c] = "find" /\ pc'[c] = "done"
              /\ invoked'[c].token = 1 )
            => /\ invoked'[c].create = 0
               /\ players' = players /\ links' = links
               /\ nextId' = nextId
               /\ result'[c].kind = "Ok" =>
                    \E p \in PlayersLinkedTo(UserOf(c)) :
                        DeserializeClaims(result'[c].token[2]).sub = p.id
        /\ (players' # players \/ links' # links) =>
            \E c \in Calls : /\ pc[c] = "commit" /\ pc'[c] = "done"
                             /\ invoked[c].create = 1
    ]_vars

\* A call found the player that another call had created and returned a
\* token for it.
C21_Witness ==
    \E c \in Calls :
        /\ pc[c] = "done"
        /\ result[c].kind = "Ok"
        /\ invoked[c] = [verify |-> 1, find |-> 1, create |-> 0, token |-> 1]
        /\ \E p \in PlayersLinkedTo(UserOf(c)) :
                DeserializeClaims(result[c].token[2]).sub = p.id

\* The ids in use: of the persisted players, and of the players other calls
\* hold or have pending in a transaction.
IdsInUse(c) ==
    {p.id : p \in players}
    \cup {player[d].id : d \in {e \in Calls \ {c} : player[e] # None}}

\* C22: a sign_in whose lookup returned not-found synthesizes a player with a
\* fresh id and calls the creation once with it and with the sign-in method
\* (Google, sub of the verified claims); when the creation succeeds exactly
\* that player and that one link are persisted and the token is issued for the
\* id of that player.
C22_UnknownIdentityCreatesOnePlayer ==
    [][ \A c \in Calls :
          /\ (pc[c] = "find" /\ pc'[c] = "begin")
             => /\ player'[c].id \notin IdsInUse(c)
                /\ invoked'[c].create = 1
                /\ sign_in_method'[c].provider = "Google"
                /\ sign_in_method'[c].user_id = UserOf(c)
                /\ PlayersLinkedTo(UserOf(c)) = {}
          /\ (pc[c] = "commit" /\ pc'[c] = "done" /\ createResult'[c].kind = "Ok")
             => /\ players' \ players = {player[c]}
                /\ links' \ links =
                        {[provider |-> "Google", user_id |-> UserOf(c),
                          player_id |-> player[c].id]}
                /\ invoked'[c].create = 1
                /\ invoked'[c].token = 1
                /\ result'[c].kind = "Ok" =>
                        DeserializeClaims(result'[c].token[2]).sub = player[c].id
    ]_vars

\* A call created a player for the second external user and returned its
\* token, after a player of the first had been persisted.
C22_Witness ==
    \E c \in Calls :
        /\ pc[c] = "done"
        /\ createResult[c].kind = "Ok"
        /\ result[c].kind = "Ok"
        /\ UserOf(c) = "ext-43"
        /\ DeserializeClaims(result[c].token[2]).sub = createResult[c].created.id
        /\ Cardinality(players) = 2

\* C23: every token of a service carries exp = iat + ttl for the ttl (in whole
\* seconds) the service was constructed with, iat not later than the time of
\* issuance and sub the requested player id; the ttl of the service never
\* changes.
C23_ExpIsIatPlusTtl ==
    unit.claims # None =>
        /\ unit.claims.exp = unit.claims.iat + NumSeconds(unit.token_ttl)
        /\ unit.claims.iat * TicksPerSecond <= unit.at
        /\ unit.claims.sub = unit.player_id

\* The bytes a request presents after the 7 bytes of the scheme.
PresentedSymbols(header) ==
    {header.text[i] : i \in (Len(BearerPrefix) + 1)..Len(header.text)}

\* C24: the payload of an error response contains neither bytes of the
\* presented token nor the signing secret, and is the same for two requests
\* that differ only in the value of the rejected token: any other header the
\* authenticator rejects with the same error gets the payload of the request
\* answered, and so do two sign-ins the verifier rejects with the same error.
C24_ErrorPayloadIndependentOfToken ==
    /\ (info.pc = "done" /\ IsErrorResponse(info.response, 401, 2)) =>
        LET dev_message == info.response.body.dev_message
        IN  /\ \A i \in DOMAIN dev_message :
                /\ dev_message[i] # Secret
                /\ dev_message[i] \notin PresentedSymbols(info.header)
            /\ \A h \in PresentedHeaders :
                LET r == AuthTokenClaimsFromRequestParts(h, now).result
                IN  (r.kind = "AuthToken" /\ r.cause = dev_message[2])
                        => IntoResponse(r) = info.response
    /\ \A c, d \in Calls :
        ( /\ result[c].kind = "IdToken" /\ result[d].kind = "IdToken"
          /\ result[c].cause = result[d].cause )
        => SignInResponse(c) = SignInResponse(d)

\* s occurs in t as a substring.
IsSubstring(s, t) ==
    \E i \in 1..(Len(t) - Len(s) + 1) : SubSeq(t, i, i + Len(s) - 1) = s

\* The secret field values of a configuration.
SecretsOf(config) ==
    {config.postgres.username, config.postgres.password, config.jwt.secret}

\* The configuration with every secret field emptied.
WithoutSecrets(config) ==
    [postgres |-> [config.postgres EXCEPT !.username = <<>>, !.password = <<>>],
     jwt |-> [config.jwt EXCEPT !.secret = <<>>]]

PlaceholdersRendered(debug) ==
    /\ IsSubstring(PostgresUsernameRedacted, debug)
    /\ IsSubstring(PostgresPasswordRedacted, debug)
    /\ IsSubstring(JwtSecretRedacted, debug)

\* C25 as stated: the Debug rendering of a configuration contains no secret
\* field value as a substring, whatever its length and content, contains the
\* placeholder of every secret field and does not depend on the secret values.
C25_NoSecretSubstring ==
    (unit # None /\ unit.fn = "Config") =>
        /\ \A secret \in SecretsOf(unit.config) : ~IsSubstring(secret, unit.debug)
        /\ PlaceholdersRendered(unit.debug)
        /\ unit.debug = DebugConfig(WithoutSecrets(unit.config))

\* C25 amended: the Debug rendering of a configuration contains the
\* placeholder of every secret field and is the rendering of the configuration
\* with its secrets emptied, so a secret value occurs in it only where the
\* text around the secrets already holds that value.
C25_RenderingIndependentOfSecrets ==
    (unit # None /\ unit.fn = "Config") =>
        /\ PlaceholdersRendered(unit.debug)
        /\ unit.debug = DebugConfig(WithoutSecrets(unit.config))
        /\ \A secret \in SecretsOf(unit.config) :
              IsSubstring(secret, unit.debug) =>
                  IsSubstring(secret, DebugConfig(WithoutSecrets(unit.config)))

\* A configuration with three different secrets, none of them in the text of
\* the rendering, has been rendered.
C25_Witness ==
    /\ unit # None /\ unit.fn = "Config"
    /\ Cardinality(SecretsOf(unit.config)) = 3
    /\ \A secret \in SecretsOf(unit.config) :
          secret # <<>> /\ ~IsSubstring(secret, unit.debug)

\* C26 as stated: the Debug rendering of a SecretConfig is one fixed
\* placeholder, the same for every wrapped value, length and type.
C26_FixedPlaceholder ==
    (unit # None /\ unit.fn = "SecretConfig") =>
        \A other \in SecretConfigValues : unit.debug = SecretConfigDebug(other)

\* C26 amended: the Debug rendering of a SecretConfig<T> is the placeholder
\* Secret(<type name of T>): it is the same for all wrapped values of one
\* type, whatever their length, and differs between types only by the type name.
C26_PlaceholderPerType ==
    (unit # None /\ unit.fn = "SecretConfig") =>
        /\ unit.debug = <<"S", "e", "c", "r", "e", "t", "(">>
                            \o TypeNameOfVal(unit.secret) \o <<")">>
        /\ \A other \in SecretConfigValues :
              other.type = unit.secret.type =>
                  unit.debug = SecretConfigDebug(other)

\* A secret of two characters has been rendered.
C26_Witness ==
    /\ unit # None /\ unit.fn = "SecretConfig"
    /\ Len(unit.secret.value) = 2
    /\ ~IsSubstring(unit.secret.value, unit.debug)

\* The strings that are s without its leading and trailing white space: the
\* parts of s between white space only that neither start nor end with it.
Trimmed(s) ==
    {SubSeq(s, i, j) : <<i, j>> \in
        {ij \in (1..(Len(s) + 1)) \X (0..Len(s)) :
            /\ ij[1] <= ij[2] + 1
            /\ \A k \in 1..Len(s) :
                  (k < ij[1] \/ k > ij[2]) => IsWhitespace(s[k].ch)
            /\ ij[1] <= ij[2] =>
                  ~IsWhitespace(s[ij[1]].ch) /\ ~IsWhitespace(s[ij[2]].ch)}}

\* The outcome the stated rule gives for the trimmed string t: Empty for the
\* empty string, below for a byte length under min, above for one over max.
RuleOutcome(t, min, below, max, above) ==
    IF t = <<>> THEN NameErr("Empty")
    ELSE IF StrLen(t) < min THEN NameErr(below)
    ELSE IF StrLen(t) > max THEN NameErr(above)
    ELSE NameOk(t)

\* C27: PlayerScreenName::from_str trims the input and returns Empty for an
\* empty trimmed string, ExceedsMaxSize for more than 30 bytes, and otherwise
\* Ok with the trimmed string: an accepted name has 1 to 30 bytes and no
\* surrounding white space.
C27_ScreenNameValidation ==
    (unit # None /\ unit.fn = "PlayerScreenName::from_str") =>
        /\ \E t \in Trimmed(unit.input) :
              unit.out = RuleOutcome(t, 1, "Empty", 30, "ExceedsMaxSize")
        /\ unit.out.kind = "Ok" =>
              /\ StrLen(unit.out.value) \in 1..30
              /\ ~IsWhitespace(Head(unit.out.value).ch)
              /\ ~IsWhitespace(unit.out.value[Len(unit.out.value)].ch)

\* A name of 16 characters and 31 bytes between white space has been refused.
C27_Witness ==
    /\ unit # None /\ unit.fn = "PlayerScreenName::from_str"
    /\ unit.out = NameErr("ExceedsMaxSize")
    /\ CharsCount(Trim(unit.input)) = 16 /\ StrLen(Trim(unit.input)) = 31
    /\ Len(unit.input) > Len(Trim(unit.input))

\* C28: PlayerName::from_str trims the input and returns Empty for a trimmed
\* length of 0, TooShort for 1 byte, TooLong for more than 20 bytes and Ok
\* with the trimmed string otherwise; deserialization validates the same way,
\* so a PlayerName has 2 to 20 bytes.
C28_PlayerNameValidation ==
    (unit # None /\ unit.fn \in {"PlayerName::from_str", "PlayerName::deserialize"}) =>
        /\ (unit.fn = "PlayerName::deserialize" => unit.json = "String") =>
              \E t \in Trimmed(unit.input) :
                  /\ unit.out = RuleOutcome(t, 2, "TooShort", 20, "TooLong")
                  /\ unit.out = NameErr("TooShort") => StrLen(t) = 1
        /\ unit.out.kind = "Ok" => StrLen(unit.out.value) \in 2..20

\* A string whose trimmed length is one byte has been refused as too short by
\* the deserialization.
C28_Witness ==
    /\ unit # None /\ unit.fn = "PlayerName::deserialize"
    /\ unit.out = NameErr("TooShort")
    /\ Len(unit.input) > 1

\* Call c moves to position p in this step.
Enters(c, p) == pc'[c] = p /\ pc[c] # p

\* C29: within one sign_in call the verifier is called first and once, the
\* store lookup once and only after the verifier returned claims, the creation
\* once and only after the lookup found no player, its statements in their
\* order, and the token is issued once and only after the lookup found the
\* player or the creation committed.
C29_StepsInOrder ==
    [][\A c \in Calls :
        /\ (Enters(c, "verify") \/ invoked'[c].verify # invoked[c].verify) =>
              /\ pc[c] = "idle" /\ invoked[c] = NoCalls
              /\ invoked'[c] = [NoCalls EXCEPT !.verify = 1]
        /\ (Enters(c, "find") \/ invoked'[c].find # invoked[c].find) =>
              /\ pc[c] = "verify"
              /\ invoked'[c] = [NoCalls EXCEPT !.verify = 1, !.find = 1]
              /\ sign_in_method'[c] # None
              /\ sign_in_method'[c].user_id = UserOf(c)
        /\ (Enters(c, "begin") \/ invoked'[c].create # invoked[c].create) =>
              /\ pc[c] = "find"
              /\ invoked'[c] = [verify |-> 1, find |-> 1, create |-> 1, token |-> 0]
              /\ ~\E l \in links : LinkKey(l) = <<"Google", UserOf(c)>>
        /\ Enters(c, "insert_player") => pc[c] = "begin"
        /\ Enters(c, "insert_link") => pc[c] = "insert_player"
        /\ Enters(c, "commit") => pc[c] = "insert_link"
        /\ (\/ invoked'[c].token # invoked[c].token
            \/ Enters(c, "done") /\ ~IsErr(result'[c])) =>
              /\ invoked[c].token = 0 /\ invoked'[c].token = 1
              /\ \/ /\ pc[c] = "find" /\ invoked[c].create = 0
                    /\ \E l \in links : LinkKey(l) = <<"Google", UserOf(c)>>
                 \/ /\ pc[c] = "commit" /\ invoked[c].create = 1
                    /\ createResult'[c].kind = "Ok"
    ]_vars

\* Two calls for one identity ran concurrently, in no imposed order: one has
\* created the player and returned its token while the other, whose lookup
\* had found no player either, is inside its own creation.
C29_Witness ==
    \E c, d \in Calls :
        /\ c # d
        /\ pc[c] = "done" /\ ~IsErr(result[c])
        /\ invoked[c] = [verify |-> 1, find |-> 1, create |-> 1, token |-> 1]
        /\ pc[d] = "insert_link" /\ invoked[d].create = 1
        /\ UserOf(c) = UserOf(d)

\* C30: for one request verify_token is invoked at most once, the player
\* lookup at most once and only after verify_token returned claims, and the
\* request ends with AuthTokenMissing, AuthToken, PlayerNotFound or the player
\* whose id is the subject of the token.
C30_LinearFourOutcomes ==
    /\ info.verified <= 1 /\ info.lookups <= 1
    /\ info.lookups = 1 => info.verified = 1 /\ info.claims # None
    /\ info.pc \in {"done", "panicked"} =>
          /\ info.pc = "done"
          /\ \/ IsErrorResponse(info.response, 401, 3) /\ info.verified = 0
             \/ IsErrorResponse(info.response, 401, 2) /\ info.lookups = 0
             \/ IsErrorResponse(info.response, 401, 1) /\ info.lookups = 1
             \/ /\ info.response.status = 200
                /\ info.lookups = 1
                /\ info.response.body.id = info.claims.sub

\* C31: verify_token, find_player_with_sign_in_method, find_player_by_id and
\* player_info leave the store as it is: a step of a GET /players/info
\* request, and the return of the lookup by sign-in method in sign_in, change
\* neither the persisted players and links nor the rows pending in a
\* transaction, whatever the outcome.
C31_ReadsLeaveStoreUnchanged ==
    [][/\ info' # info =>
            /\ players' = players /\ links' = links
            /\ tx' = tx /\ jwtVars' = jwtVars
       /\ \A c \in Calls :
            (pc[c] = "find" /\ pc'[c] # "find") =>
                /\ players' = players /\ links' = links
                /\ \A d \in Calls \ {c} : tx'[d] = tx[d]
                /\ tx'[c] = NoTx /\ jwtVars' = jwtVars
    ]_vars

\* A sign-in has looked its player up and returned, and a request with a
\* verified token has been answered with a player that is still in the store.
C31_Witness ==
    /\ info.pc = "done"
    /\ info.verified = 1 /\ info.lookups = 1
    /\ info.response.status = 200
    /\ info.response.body \in players
    /\ \E c \in Calls : pc[c] = "done" /\ invoked[c].find = 1

\* C32: a token verifies successfully up to its expiry whatever sign-ins have
\* been served since it was issued, and a correctly signed token is never
\* accepted after it has been rejected as expired.
C32_ValidityDependsOnTokenAndTime ==
    unit.last # None =>
        /\ unit.last.at <= DeserializeClaims(unit.token[2]).exp =>
              /\ unit.last.result.kind = "Ok"
              /\ unit.last.result.claims = DeserializeClaims(unit.token[2])
        /\ (CorrectlySigned(unit.token) /\ unit.last.result.kind = "Ok") =>
              ~unit.rejected
        /\ (unit.rejected /\ CorrectlySigned(unit.token)) =>
              unit.last.at > DeserializeClaims(unit.token[2]).exp

\* The token has been accepted at the second of its expiry, after every
\* player had signed in again.
C32_Witness ==
    /\ unit.last # None
    /\ unit.last.after = PlayerIds
    /\ unit.last.at = DeserializeClaims(unit.token[2]).exp
    /\ unit.last.at > DeserializeClaims(unit.token[2]).iat
    /\ unit.last.result.kind = "Ok"

\* The calls that have returned a token.
ReturnedToken(c) == pc[c] = "done" /\ result[c].kind = "Ok"

\* C33: the subject of a token sign_in returns for external identity E is a
\* player the store links to E and to no other identity, and sign-ins for two
\* different identities never return tokens with the same subject.
C33_TokenSubjectIsLinkedToIdentity ==
    /\ \A c \in Calls :
          ReturnedToken(c) =>
              /\ \E l \in links :
                    /\ LinkKey(l) = <<"Google", UserOf(c)>>
                    /\ l.player_id = TokenSub(result[c].token)
              /\ \A l \in links :
                    l.player_id = TokenSub(result[c].token) => l.user_id = UserOf(c)
    /\ \A c, d \in Calls :
          (ReturnedToken(c) /\ ReturnedToken(d) /\ UserOf(c) # UserOf(d)) =>
              TokenSub(result[c].token) # TokenSub(result[d].token)

\* Sign-ins for two different identities have returned tokens, one of them
\* while the player of the other identity was already persisted.
C33_Witness ==
    \E c, d \in Calls :
        /\ ReturnedToken(c) /\ ReturnedToken(d)
        /\ UserOf(c) # UserOf(d)
        /\ Cardinality(players) = 2

\* C34: every persisted sign-in-method row references a persisted player and
\* every persisted player has exactly one sign-in-method row, whatever
\* sign-ins have failed, raced or been dropped.
C34_NoOrphans ==
    /\ \A l \in links : Cardinality({p \in players : p.id = l.player_id}) = 1
    /\ \A p \in players : Cardinality({l \in links : l.player_id = p.id}) = 1

\* One player is persisted with its one link after a racing sign-in for the
\* same identity has lost the race for the key.
C34_Witness ==
    /\ Cardinality(players) = 1 /\ Cardinality(links) = 1
    /\ \E c \in Calls : pc[c] = "done" /\ KeyConflict(createResult[c])

\* Call c has created its player and then failed to issue the token.
CreatedThenIssuanceFailed(c) ==
    pc[c] = "done" /\ createResult[c].kind = "Ok" /\ IsErr(result[c])

\* C35: when token issuance fails after sign_in has created a player, sign_in
\* returns the internal error of the issuance, the created player and its link
\* stay persisted, and a sign_in for the same identity whose lookup returns
\* afterwards finds that player and creates no other.
C35_CreationSurvivesIssuanceFailure ==
    [][\A c \in Calls :
        CreatedThenIssuanceFailed(c) =>
            /\ result[c].kind = "Internal"
            /\ result[c].context = "create auth token"
            /\ createResult[c].created \in players'
            /\ \E l \in links' :
                  /\ LinkKey(l) = <<"Google", UserOf(c)>>
                  /\ l.player_id = createResult[c].created.id
            /\ \A d \in Calls \ {c} :
                  ( /\ pc[d] = "find" /\ pc'[d] \notin {"find", "dropped"}
                    /\ UserOf(d) = UserOf(c) ) =>
                      /\ pc'[d] = "done"
                      /\ invoked'[d].create = 0
                      /\ players' = players /\ links' = links
                      /\ ~IsErr(result'[d]) =>
                            TokenSub(result'[d].token) = createResult[c].created.id
    ]_vars

\* After a sign-in that created its player and failed to issue the token,
\* another sign-in for the same identity has returned a token for that player
\* without creating one.
C35_Witness ==
    \E c, d \in Calls :
        /\ c # d
        /\ CreatedThenIssuanceFailed(c)
        /\ pc[d] = "done" /\ result[d].kind = "Ok"
        /\ invoked[d].create = 0
        /\ UserOf(d) = UserOf(c)
        /\ TokenSub(result[d].token) = createResult[c].created.id
        /\ Cardinality(players) = 1

\* The header value starts with the literal "Bearer ".
StartsWithBearer(header) ==
    /\ Len(header.text) >= 7
    /\ SubSeq(header.text, 1, 7) = <<"B", "e", "a", "r", "e", "r", " ">>

\* C36: verify_token is called only for a header value that starts with
\* "Bearer ", with the part of the value after that prefix: claims are never
\* obtained from a value of another form with its first 7 bytes dropped.
C36_OnlyBearerCredentialsVerified ==
    (info.header # None /\ info.header.visible /\ info.verified = 1) =>
        /\ StartsWithBearer(info.header)
        /\ info.claims # None =>
              /\ Len(info.header.text) = 7
              /\ info.claims = DeserializeClaims(info.header.token[2])

====
